---- MODULE Spec2Model ----
(***************************************************************************)
(* Model of rpmconf (src/rpmconf/rpmconf.py): the per-file conflict        *)
(* resolver (_handle_rpmnew / _handle_rpmsave), the merge dispatcher       *)
(* (_merge_conf_files), the package driver (run / _handle_package) and the *)
(* orphan clean-up (_clean_orphan).                                        *)
(*                                                                         *)
(* The filesystem is a function from a fixed set of paths to directory     *)
(* entries.  One configuration file "base" is declared by the package; its *)
(* siblings are "new" (base.rpmnew), "save" (base.rpmsave) and "orig"      *)
(* (base.rpmorig).  "tgt" is the file a symbolic link points to, "sidecar" *)
(* is base.orig (written by kdiff3), "tmp" is the mkstemp scratch file of  *)
(* the sdiff frontend and "stray" is an artifact no package owns.          *)
(*                                                                         *)
(* Three specifications share the actions:                                 *)
(*   SpecResolve  one call of _handle_rpmnew / _handle_rpmsave on any pair *)
(*                _handle_package can pass, for every policy, dry-run      *)
(*                setting and merge frontend;                              *)
(*   SpecRace     the same call while another process may unlink           *)
(*                other_file between any two steps;                        *)
(*   Spec         run(): the package loop over the three suffixes, then    *)
(*                the orphan clean-up and the exit status.                 *)
(*                                                                         *)
(* Every directory named by a path exists and is writable, and external    *)
(* programs other than the merge tool (ls, diff, the pager) are installed. *)
(* `exit` holds the way the run ended: a sys.exit status, or the name of   *)
(* an exception no handler of the module catches.                          *)
(***************************************************************************)
EXTENDS Integers, Sequences, FiniteSets, TLC

\* ---------------------------------------------------------------- bounds
MaxMtime == 2
MaxPrompts == 2

\* ------------------------------------------------------------ filesystem
Paths == {"base", "new", "save", "orig", "tgt", "sidecar", "tmp", "stray"}

Missing == [t |-> "missing", data |-> << >>, mtime |-> 0, to |-> ""]
File(d, m) == [t |-> "file", data |-> d, mtime |-> m, to |-> ""]
Link(p) == [t |-> "link", data |-> << >>, mtime |-> 0, to |-> p]

\* file contents are byte sequences; DataM is what a merge tool writes
DataA == <<1>>
DataB == <<2>>
DataCC == <<1, 1>>
DataM == <<3>>

\* os.path.lexists
lexists(f, p) == f[p].t # "missing"

\* os.path.islink
islink(f, p) == f[p].t = "link"

\* the path a name resolves to when symbolic links are followed
realpath(f, p) == IF f[p].t = "link" THEN f[p].to ELSE p

\* os.path.exists / os.access(p, F_OK): follows symbolic links
exists(f, p) == f[realpath(f, p)].t = "file"

\* os.stat: the entry reached through symbolic links
stat(f, p) == f[realpath(f, p)]

\* the bytes read through a path (<< >> when nothing can be opened)
content(f, p) == stat(f, p).data

\* RpmConf.is_broken_symlink, as written: islink(file1) and exists(file1)
is_broken_symlink(f, p) == islink(f, p) /\ exists(f, p)

\* filecmp._sig: (file type, st_size, st_mtime); every stat-able entry of
\* the model is a regular file
sig(e) == <<e.t, Len(e.data), e.mtime>>

\* filecmp.cmp(f1, f2) with the default shallow=True
filecmp_cmp(f, p1, p2) ==
    LET s1 == sig(stat(f, p1))
        s2 == sig(stat(f, p2))
    IN  IF s1 = s2 THEN TRUE
        ELSE IF s1[2] # s2[2] THEN FALSE
        ELSE content(f, p1) = content(f, p2)

\* results of a file operation: the new filesystem and the exception raised
Ok(f) == [fs |-> f, err |-> "none"]
Raise(f, e) == [fs |-> f, err |-> e]

\* os.unlink
unlink(f, p) ==
    IF lexists(f, p) THEN Ok([f EXCEPT ![p] = Missing])
    ELSE Raise(f, "FileNotFoundError")

\* shutil.copy2(src, dst): follows symbolic links on both sides, creates the
\* destination (or the target of a dangling link), copies data and mtime
copy2(f, src, dst) ==
    IF ~exists(f, src) THEN Raise(f, "FileNotFoundError")
    ELSE IF exists(f, dst) /\ realpath(f, src) = realpath(f, dst)
         THEN Raise(f, "SameFileError")
    ELSE Ok([f EXCEPT ![realpath(f, dst)] = stat(f, src)])

\* RpmConf._copy
_copy(f, src, dst) ==
    IF islink(f, src)
    THEN Ok([f EXCEPT ![dst] = Link(f[src].to)])
    ELSE copy2(f, src, dst)

\* --------------------------------------------------------------- state
VARIABLES
    fs,            \* the filesystem: Paths -> entry
    unattended,    \* self.unattended ("none" for None)
    debug,         \* self.debug
    frontend,      \* self.frontend ("none" for None)
    merge_env,     \* whether the MERGE environment variable is set
    test,          \* self.test
    diff,          \* self.diff
    clean,         \* self.clean
    pc,            \* position in run / _handle_package / handler
    handler,       \* "rpmnew" or "rpmsave": which handler runs
    other_file,    \* the handler's other_file argument
    option,        \* the handler's local `option`
    answer,        \* _clean_orphan's local `answer`
    tested_files,  \* run's local `tested_files`
    files_merge,   \* _clean_orphan's local `files_merge`
    files_delete,  \* _clean_orphan's local `files_delete` (the tree walk
                   \* keeps its order)
    exit,          \* "running", "returned", "exit<n>" or the exception raised
    raw,           \* last event of the input channel
    nprompts,      \* prompts printed by the current handler call
    snap,          \* filesystem at handler entry, retaken at every prompt
    ops,           \* operations the current handler call has invoked
    outcome,       \* message the handler returned with
    fast,          \* the current handler call took the fast path
    flushed,       \* flush_input has been called in this run
    interfered,    \* another actor removed other_file during this call
    shown,         \* diffs presented by _handle_package: <<file1, file2>>
    tool,          \* how the last merge tool run ended: "missing", "exit<n>"
    links,         \* symbolic links to directories below the scan roots
    files,         \* the files below the scan roots
    exclude,       \* self.exclude
    wroot,         \* self.root is set (to "/alt")
    todo,          \* topdirs the loop of _clean_orphan has yet to take
    stack,         \* directories os.walk has yet to yield, next one first
    dirs_inodes,   \* _clean_orphan's local `dirs_inodes`
    visits         \* paths of the directories os.walk has yielded

config == <<unattended, debug, frontend, merge_env, test, diff, clean>>
locals == <<handler, other_file, option, answer, tested_files, files_merge,
            files_delete>>
history == <<raw, nprompts, snap, ops, outcome, fast, flushed, interfered,
             shown, tool>>
scan == <<links, files, exclude, wroot, todo, stack, dirs_inodes, visits>>
vars == <<fs, config, pc, locals, exit, history, scan>>

\* no orphan walk is under way
NoScan ==
    /\ links = {} /\ files = {} /\ exclude = {} /\ wroot = FALSE
    /\ todo = << >> /\ stack = << >> /\ dirs_inodes = {} /\ visits = {}

conf_file == "base"

Policies == {"none", "use_maintainer", "use_your", "default"}

\* ---------------------------------------------------------- input channel
Lines == {"Y", "i", "N", "o", "d", "M", "m", "Z", "S", "s", "", "x"}
Events == Lines \cup {"<EOF>", "<INT>"}

\* a variant of upper that leaves its argument as typed
upper_as_typed(s) == s

\* str.upper
upper(s) ==
    CASE s = "y" -> "Y" [] s = "i" -> "I" [] s = "n" -> "N" [] s = "o" -> "O"
      [] s = "d" -> "D" [] s = "m" -> "M" [] s = "z" -> "Z" [] s = "s" -> "S"
      [] s = "x" -> "X" [] s = "no" -> "NO" [] OTHER -> s

\* ------------------------------------------------- guarded file operations
\* RpmConf._remove
_remove(f, p) == IF debug THEN Ok(f) ELSE unlink(f, p)

\* ---------------------------------------------------------- the resolver
\* the condition of lines 380-381 / 437-438, with Python's short circuit
FastPath(f, other) ==
    IF is_broken_symlink(f, conf_file) \/ is_broken_symlink(f, other)
    THEN "skip"
    ELSE IF ~exists(f, conf_file) THEN "skip"
    ELSE IF ~exists(f, other) THEN "FileNotFoundError"
    ELSE IF filecmp_cmp(f, conf_file, other) THEN "take"
    ELSE "skip"

\* lines 385-390
rpmnew_unattended(policy) ==
    IF policy = "use_maintainer" THEN "overwrite"
    ELSE IF policy \in {"use_your", "default"} THEN "remove"
    ELSE "ask"

\* a variant of rpmsave_unattended with the two policies exchanged
rpmsave_unattended_swapped(policy) ==
    IF policy \in {"use_your", "default"} THEN "remove"
    ELSE IF policy = "use_maintainer" THEN "overwrite"
    ELSE "ask"

\* lines 442-447
rpmsave_unattended(policy) ==
    IF policy \in {"use_maintainer", "default"} THEN "remove"
    ELSE IF policy = "use_your" THEN "overwrite"
    ELSE "ask"

\* lines 419-420 / 477-478
rpmnew_default == "N"
rpmsave_default == "Y"
default_option(h) == IF h = "rpmnew" THEN rpmnew_default ELSE rpmsave_default

\* the while condition of lines 404 / 462
Terminal == {"Y", "I", "N", "O", "S"}

\* lines 431-434
rpmnew_final(opt) ==
    IF opt \in {"N", "O"} THEN "remove"
    ELSE IF opt \in {"Y", "I"} THEN "overwrite"
    ELSE "return"

\* a variant of rpmsave_final that answers as _handle_rpmnew does
rpmsave_final_as_rpmnew(opt) ==
    IF opt \in {"N", "O"} THEN "remove"
    ELSE IF opt \in {"Y", "I"} THEN "overwrite"
    ELSE "return"

\* lines 489-492
rpmsave_final(opt) ==
    IF opt \in {"Y", "I"} THEN "remove"
    ELSE IF opt \in {"N", "O"} THEN "overwrite"
    ELSE "return"

step(action) ==
    CASE action = "overwrite" -> "h_ow"
      [] action = "remove" -> "h_rm"
      [] action = "ask" -> "h_check1"
      [] OTHER -> "ret"

\* lines 380-381 / 437-438
H_Fast ==
    /\ pc = "h_fast" /\ exit = "running"
    /\ LET r == FastPath(fs, other_file) IN
        /\ pc' = IF r = "take" THEN "h_rm" ELSE IF r = "skip" THEN "h_unatt" ELSE pc
        /\ fast' = (r = "take")
        /\ exit' = IF r \in {"take", "skip"} THEN exit ELSE r
    /\ UNCHANGED <<fs, config, locals, raw, nprompts, snap, ops, outcome,
                   flushed, interfered, shown, tool>>
    /\ UNCHANGED scan

\* lines 385-390 / 442-447
H_Unattended ==
    /\ pc = "h_unatt" /\ exit = "running"
    /\ pc' = step(IF handler = "rpmnew" THEN rpmnew_unattended(unattended)
                  ELSE rpmsave_unattended(unattended))
    /\ UNCHANGED <<fs, config, locals, exit, history>>
    /\ UNCHANGED scan

\* self._remove(other_file) followed by return (lines 382, 389, 432, ...)
H_Remove ==
    /\ pc = "h_rm" /\ exit = "running"
    /\ LET r == _remove(fs, other_file) IN
        /\ fs' = r.fs
        /\ exit' = IF r.err = "none" THEN exit ELSE r.err
        /\ pc' = IF r.err = "none" THEN "ret" ELSE pc
    /\ ops' = ops \cup {"remove"}
    /\ UNCHANGED <<config, locals, raw, nprompts, snap, outcome, fast,
                   flushed, interfered, shown, tool>>
    /\ UNCHANGED scan

\* RpmConf._overwrite(other_file, conf_file), first half: lines 270-273
H_Overwrite ==
    /\ pc = "h_ow" /\ exit = "running"
    /\ LET r == IF debug THEN Ok(fs) ELSE _copy(fs, other_file, conf_file) IN
        /\ fs' = r.fs
        /\ exit' = IF r.err = "none" THEN exit ELSE r.err
        /\ pc' = IF r.err # "none" THEN pc
                 ELSE IF debug THEN "ret" ELSE "h_ow_rm"
    /\ ops' = ops \cup {"overwrite"}
    /\ UNCHANGED <<config, locals, raw, nprompts, snap, outcome, fast,
                   flushed, interfered, shown, tool>>
    /\ UNCHANGED scan

\* RpmConf._overwrite, second half: line 274, then the handler returns
H_OverwriteRemove ==
    /\ pc = "h_ow_rm" /\ exit = "running"
    /\ LET r == _remove(fs, other_file) IN
        /\ fs' = r.fs
        /\ exit' = IF r.err = "none" THEN exit ELSE r.err
        /\ pc' = IF r.err = "none" THEN "ret" ELSE pc
    /\ UNCHANGED <<config, locals, history>>
    /\ UNCHANGED scan

\* lines 405-407 / 463-465
H_Check1 ==
    /\ pc = "h_check1" /\ exit = "running"
    /\ IF exists(fs, other_file)
       THEN pc' = "h_ls" /\ UNCHANGED outcome
       ELSE pc' = "ret" /\ outcome' = "removed_by_3rd_party"
    /\ UNCHANGED <<fs, config, locals, exit, raw, nprompts, snap, ops, fast,
                   flushed, interfered, shown, tool>>
    /\ UNCHANGED scan

\* lines 408-409 / 466-467: _ls_conf_file runs ls on both paths (conf_file
\* replaced by /dev/null when it does not exist), then the prompt is printed
H_Ls ==
    /\ pc = "h_ls" /\ exit = "running"
    /\ nprompts < MaxPrompts
    /\ IF lexists(fs, other_file)
       THEN /\ pc' = "h_read"
            /\ nprompts' = nprompts + 1
            /\ snap' = fs
            /\ UNCHANGED exit
       ELSE /\ exit' = "CalledProcessError"
            /\ UNCHANGED <<pc, nprompts, snap>>
    /\ UNCHANGED <<fs, config, locals, raw, ops, outcome, fast, flushed,
                   interfered, shown, tool>>
    /\ UNCHANGED scan

\* lines 410-415 / 468-473: flush_input and its exception handlers
H_Read ==
    /\ pc = "h_read" /\ exit = "running"
    /\ \E ev \in Events :
        /\ raw' = ev
        /\ IF ev = "<INT>"
           THEN exit' = "exit1" /\ UNCHANGED <<pc, option>>
           ELSE /\ option' = IF ev = "<EOF>" THEN "S" ELSE upper(ev)
                /\ pc' = "h_check2"
                /\ UNCHANGED exit
    /\ flushed' = TRUE
    /\ UNCHANGED <<fs, config, handler, other_file, answer, tested_files,
                   files_merge, files_delete, nprompts, snap, ops, outcome,
                   fast, interfered, shown, tool>>
    /\ UNCHANGED scan

\* a variant of H_Check2 that does not look at other_file after the read
H_Check2_unchecked ==
    /\ pc = "h_check2" /\ exit = "running"
    /\ pc' = "h_dispatch"
    /\ UNCHANGED <<fs, config, locals, exit, history>>
    /\ UNCHANGED scan

\* lines 416-418 / 474-476
H_Check2 ==
    /\ pc = "h_check2" /\ exit = "running"
    /\ IF exists(fs, other_file)
       THEN pc' = "h_dispatch" /\ UNCHANGED outcome
       ELSE pc' = "ret" /\ outcome' = "removed_by_3rd_party"
    /\ UNCHANGED <<fs, config, locals, exit, raw, nprompts, snap, ops, fast,
                   flushed, interfered, shown, tool>>
    /\ UNCHANGED scan

\* a variant of LoopNext that ends the loop on anything but D, M and Z
LoopNext_lenient(opt) == IF opt \notin {"D", "M", "Z"} THEN "h_final" ELSE "h_check1"

\* the loop test of lines 404 / 462
LoopNext(opt) == IF opt \in Terminal THEN "h_final" ELSE "h_check1"

\* lines 419-426 / 477-484: default, diff, background, and the loop test
H_Dispatch ==
    /\ pc = "h_dispatch" /\ exit = "running"
    /\ LET opt == IF option = "" THEN default_option(handler) ELSE option IN
        /\ option' = opt
        /\ ops' = IF opt = "D" THEN ops \cup {"diff"}
                  ELSE IF opt = "Z" THEN ops \cup {"background"}
                  ELSE ops
        /\ pc' = IF opt = "M" THEN "h_merge" ELSE LoopNext(opt)
    /\ UNCHANGED <<fs, config, handler, other_file, answer, tested_files,
                   files_merge, files_delete, exit, raw, nprompts, snap,
                   outcome, fast, flushed, interfered, shown, tool>>
    /\ UNCHANGED scan

\* lines 428-430 / 486-488, then the loop test
H_Merged ==
    /\ pc = "h_merged" /\ exit = "running"
    /\ IF exists(fs, other_file)
       THEN pc' = LoopNext(option) /\ UNCHANGED outcome
       ELSE pc' = "ret" /\ outcome' = "merged"
    /\ UNCHANGED <<fs, config, locals, exit, raw, nprompts, snap, ops, fast,
                   flushed, interfered, shown, tool>>
    /\ UNCHANGED scan

\* lines 431-434 / 489-492
H_Final ==
    /\ pc = "h_final" /\ exit = "running"
    /\ pc' = step(IF handler = "rpmnew" THEN rpmnew_final(option)
                  ELSE rpmsave_final(option))
    /\ UNCHANGED <<fs, config, locals, exit, history>>
    /\ UNCHANGED scan

\* ------------------------------------------------------ merge dispatcher
Frontends == {"vimdiff", "gvimdiff", "meld", "diffuse", "kdiff3", "sdiff",
              "env", "none"}

\* what the external tool itself may do to the files while it runs
ToolEffects(fe, env) ==
    IF fe = "kdiff3" THEN {"nothing", "save", "save_backup"}
    ELSE IF fe \in {"env", "none"} /\ env THEN {"nothing", "save", "save_rm"}
    ELSE {"nothing", "save"}

\* a write through path p (open for writing follows symbolic links)
write(f, p, d) == [f EXCEPT ![realpath(f, p)] = File(d, MaxMtime)]

\* the external program: visual tools and the MERGE command edit conf_file
\* in place, kdiff3 writes its output to conf_file (keeping the old version
\* as conf_file.orig when it makes a backup), sdiff writes to the scratch file
ToolRun(f, fe, other, eff) ==
    IF eff = "nothing" THEN f
    ELSE IF fe = "sdiff" THEN [f EXCEPT !["tmp"] = File(DataM, MaxMtime)]
    ELSE IF eff = "save_backup" /\ exists(f, conf_file)
         THEN [write(f, conf_file, DataM) EXCEPT !["sidecar"] = stat(f, conf_file)]
    ELSE IF eff = "save_rm"
         THEN [write(f, conf_file, DataM) EXCEPT ![other] = Missing]
    ELSE write(f, conf_file, DataM)

\* a sequence of file operations inside the outer try of _merge_conf_files:
\* a FileNotFoundError of any of them reaches line 338 and exits with 4
Caught(r) == IF r.err = "FileNotFoundError" THEN Raise(r.fs, "exit4") ELSE r

\* lines 319-321 and 324-326
sdiff_install(f, other) ==
    LET r1 == _remove(f, other)
        r2 == IF r1.err = "none" THEN _copy(r1.fs, "tmp", conf_file) ELSE r1
        r3 == IF r2.err = "none" THEN _remove(r2.fs, "tmp") ELSE r2
    IN  Caught(r3)

\* lines 309-310
kdiff3_cleanup(f, other) ==
    LET r1 == _remove(f, other)
        r2 == IF r1.err = "none" THEN _remove(r1.fs, "sidecar") ELSE r1
    IN  Caught(r2)

\* RpmConf._merge_conf_files: found = the executable exists, status = its
\* exit status, eff = what it did to the files
_merge_conf_files(f, other, fe, env, found, status, eff) ==
    LET g == ToolRun(f, fe, other, eff) IN
    IF fe \in {"vimdiff", "gvimdiff", "meld"}
    THEN IF ~found THEN Raise(f, "exit4")
         ELSE IF status # 0 THEN Raise(g, "CalledProcessError")
         ELSE Ok(g)
    ELSE IF fe = "diffuse"
    THEN IF ~found THEN Raise(f, "exit4") ELSE Ok(g)
    ELSE IF fe = "kdiff3"
    THEN IF ~found THEN Raise(f, "exit4")
         ELSE IF status # 0 THEN Ok(g)
         ELSE kdiff3_cleanup(g, other)
    ELSE IF fe = "sdiff"
    THEN LET f0 == [f EXCEPT !["tmp"] = File(<< >>, MaxMtime)]
             g0 == ToolRun(f0, fe, other, eff)
         IN  IF ~found THEN Raise(f0, "exit4")
             ELSE IF status \in {0, 1} THEN sdiff_install(g0, other)
             ELSE Ok(g0)
    ELSE IF env
    THEN IF ~found THEN Raise(f, "exit4")
         ELSE IF status # 0 THEN Raise(g, "CalledProcessError")
         ELSE Ok(g)
    ELSE Raise(f, "exit2")

\* the executable _merge_conf_files resolves, "none" when it resolves none
Executable(fe, env) ==
    IF fe \in {"env", "none"} THEN (IF env THEN "$MERGE" ELSE "none") ELSE fe

\* line 427 / 485
H_Merge ==
    /\ pc = "h_merge" /\ exit = "running"
    /\ \E found \in BOOLEAN, status \in {0, 1, 2},
          eff \in ToolEffects(frontend, merge_env) :
        LET r == _merge_conf_files(fs, other_file, frontend, merge_env,
                                   found, status, eff) IN
        /\ fs' = r.fs
        /\ exit' = IF r.err = "none" THEN exit ELSE r.err
        /\ pc' = IF r.err = "none" THEN "h_merged" ELSE pc
        /\ tool' = IF Executable(frontend, merge_env) = "none" THEN "none"
                   ELSE IF ~found THEN "missing"
                   ELSE IF status = 0 THEN "exit0"
                   ELSE IF status = 1 THEN "exit1" ELSE "exit2"
    /\ ops' = ops \cup {"merge"}
    /\ UNCHANGED <<config, locals, raw, nprompts, snap, outcome, fast,
                   flushed, interfered, shown>>
    /\ UNCHANGED scan

\* --------------------------------------------- the resolver on its own
Mtimes == 1 .. MaxMtime
ArtifactValues ==
    {File(d, m) : d \in {DataA, DataB, DataCC}, m \in Mtimes} \cup {Link("tgt")}
BaseValues == {Missing, File(DataA, 1), Link("tgt")}
TargetValues == {Missing, File(DataA, 1), File(DataB, 1)}

\* merge configurations: the MERGE variable matters to "env" and None only
MergeConfigs ==
    {<<fe, e>> : fe \in Frontends, e \in BOOLEAN} \ 
    {<<fe, TRUE>> : fe \in Frontends \ {"env", "none"}}

NoFiles == [p \in Paths |-> Missing]

HandlerOf(other) == IF other = "new" THEN "rpmnew" ELSE "rpmsave"

\* a call _handle_rpmnew(conf_file, other_file) / _handle_rpmsave(...) as
\* _handle_package makes it: other_file passed os.access(..., F_OK)
InitResolve ==
    /\ \E b \in BaseValues, t \in TargetValues, a \in ArtifactValues,
          o \in {"new", "save", "orig"} :
        /\ fs = [NoFiles EXCEPT !["base"] = b, !["tgt"] = t, ![o] = a]
        /\ other_file = o
        /\ handler = HandlerOf(o)
    /\ exists(fs, other_file)
    /\ unattended \in Policies
    /\ debug \in BOOLEAN
    /\ \E mc \in MergeConfigs : frontend = mc[1] /\ merge_env = mc[2]
    /\ test = FALSE /\ diff = FALSE /\ clean = FALSE
    /\ pc = "h_fast"
    /\ option = "" /\ answer = "none" /\ tested_files = 0
    /\ files_merge = {} /\ files_delete = {}
    /\ exit = "running"
    /\ raw = "none" /\ nprompts = 0 /\ snap = fs /\ ops = {}
    /\ outcome = "none" /\ fast = FALSE /\ flushed = FALSE
    /\ interfered = FALSE /\ shown = {} /\ tool = "none"
    /\ NoScan

NextResolve ==
    \/ H_Fast
    \/ H_Unattended
    \/ H_Remove
    \/ H_Overwrite
    \/ H_OverwriteRemove
    \/ H_Check1
    \/ H_Ls
    \/ H_Read
    \/ H_Check2
    \/ H_Dispatch
    \/ H_Merge
    \/ H_Merged
    \/ H_Final

SpecResolve == InitResolve /\ [][NextResolve]_vars

\* ------------------------------------------------ run / _handle_package
\* "{0}.rpmnew".format(conf_file) and its two siblings
sibling(cf, sfx) ==
    IF cf = "base"
    THEN (CASE sfx = "rpmnew" -> "new" [] sfx = "rpmsave" -> "save"
            [] OTHER -> "orig")
    ELSE IF sfx = "rpmnew" THEN "/dev/null.rpmnew"
    ELSE IF sfx = "rpmsave" THEN "/dev/null.rpmsave"
    ELSE "/dev/null.rpmorig"

\* os.path.lexists for a name that may lie outside the modelled paths
lexists_any(f, p) == p \in Paths /\ lexists(f, p)

\* RpmConf._show_cond_diff: the diffs it presents
_show_cond_diff(f, file_ex, file1, file2) ==
    IF lexists_any(f, file_ex) THEN {<<file1, file2>>} ELSE {}

\* lines 345-353
P_Diff ==
    /\ pc = "pkg" /\ exit = "running"
    /\ diff
    /\ LET cf == IF exists(fs, conf_file) THEN conf_file ELSE "/dev/null"
           conf_rpmnew == sibling(cf, "rpmnew")
           conf_rpmsave == sibling(cf, "rpmsave")
           conf_rpmorig == sibling(cf, "rpmorig")
       IN  shown' = shown
                \cup _show_cond_diff(fs, conf_rpmnew, cf, conf_rpmnew)
                \cup _show_cond_diff(fs, conf_rpmsave, conf_rpmsave, cf)
                \cup _show_cond_diff(fs, conf_rpmorig, conf_rpmorig, cf)
    /\ pc' = "run_clean"
    /\ UNCHANGED <<fs, config, locals, exit, raw, nprompts, snap, ops,
                   outcome, fast, flushed, interfered, tool>>
    /\ UNCHANGED scan

\* line 354: the else branch is entered
P_Enter ==
    /\ pc = "pkg" /\ exit = "running"
    /\ ~diff
    /\ pc' = "pkg_new"
    /\ UNCHANGED <<fs, config, locals, exit, history>>
    /\ UNCHANGED scan

SuffixAt(p) ==
    CASE p = "pkg_new" -> "rpmnew" [] p = "pkg_save" -> "rpmsave"
      [] OTHER -> "rpmorig"

AfterSuffix(sfx) ==
    CASE sfx = "rpmnew" -> "pkg_save" [] sfx = "rpmsave" -> "pkg_orig"
      [] OTHER -> "run_clean"

SuffixOf(p) ==
    CASE p = "new" -> "rpmnew" [] p = "orig" -> "rpmorig" [] OTHER -> "rpmsave"

\* lines 356-376: one of the three `if os.access(...)` blocks
P_Check ==
    /\ pc \in {"pkg_new", "pkg_save", "pkg_orig"} /\ exit = "running"
    /\ LET sfx == SuffixAt(pc)
           art == sibling(conf_file, sfx)
       IN  IF ~exists(fs, art)
           THEN /\ pc' = AfterSuffix(sfx)
                /\ UNCHANGED <<locals, history>>
           ELSE IF test
           THEN /\ pc' = AfterSuffix(sfx)
                /\ tested_files' = tested_files + 1
                /\ UNCHANGED <<handler, other_file, option, answer,
                               files_merge, files_delete, history>>
           ELSE /\ pc' = "h_fast"
                /\ handler' = HandlerOf(art)
                /\ other_file' = art
                /\ option' = ""
                /\ raw' = "none" /\ nprompts' = 0 /\ snap' = fs /\ ops' = {}
                /\ outcome' = "none" /\ fast' = FALSE /\ interfered' = FALSE
                /\ tool' = "none"
                /\ UNCHANGED <<answer, tested_files, files_merge,
                               files_delete, flushed, shown>>
    /\ UNCHANGED <<fs, config, exit>>
    /\ UNCHANGED scan

\* the handler returns into _handle_package; its locals go out of scope
P_Return ==
    /\ pc = "ret" /\ exit = "running"
    /\ pc' = AfterSuffix(SuffixOf(other_file))
    /\ handler' = "none" /\ option' = "" /\ other_file' = "none"
    /\ raw' = "none" /\ nprompts' = 0 /\ snap' = fs /\ ops' = {}
    /\ outcome' = "none" /\ fast' = FALSE /\ interfered' = FALSE
    /\ tool' = "none"
    /\ UNCHANGED <<fs, config, answer, tested_files, files_merge,
                   files_delete, exit, flushed, shown>>
    /\ UNCHANGED scan

\* the package database: the package declares conf_file, nothing else
Owner(name) == IF name = "base" THEN "pkg" ELSE "none"

\* os.path.splitext of the modelled names
splitext(p) ==
    CASE p = "new" -> <<"base", ".rpmnew">>
      [] p = "save" -> <<"base", ".rpmsave">>
      [] p = "orig" -> <<"base", ".rpmorig">>
      [] p = "stray" -> <<"gone", ".rpmsave">>
      [] p = "sidecar" -> <<"base", ".orig">>
      [] OTHER -> <<p, "">>

\* RpmConf._clean_orphan_file
_clean_orphan_file(p) ==
    LET orig == splitext(p)[1] IN
    IF Owner(orig) = "none"
    THEN [merge |-> <<"none", orig, p>>, delete |-> p]
    ELSE [merge |-> <<Owner(orig), orig, p>>, delete |-> "none"]

\* the file names os.walk reports below the scanned directories
Walked(f) == {p \in Paths \ {"tmp"} : lexists(f, p)}

\* a variant of ScanSuffixes with every suffix _handle_package knows
ScanSuffixes_all == {".rpmnew", ".rpmsave", ".rpmorig"}
\* line 532: the suffixes the walk looks for
ScanSuffixes == {".rpmnew", ".rpmsave"}
Candidates(f) == {p \in Walked(f) : splitext(p)[2] \in ScanSuffixes}

\* lines 121-122 and 507-549: the walk and its report
C_Scan ==
    /\ pc = "run_clean" /\ exit = "running"
    /\ IF clean
       THEN LET found == {_clean_orphan_file(p) : p \in Candidates(fs)} IN
            /\ files_merge' = {r.merge : r \in {x \in found : x.merge[1] # "none"}}
            /\ files_delete' = {r.delete : r \in {x \in found : x.delete # "none"}}
            /\ pc' = IF files_delete' # {} THEN "clean_ask" ELSE "run_exit"
       ELSE /\ pc' = "run_exit"
            /\ UNCHANGED <<files_merge, files_delete>>
    /\ snap' = fs
    /\ UNCHANGED <<fs, config, handler, other_file, option, answer,
                   tested_files, exit, raw, nprompts, ops, outcome, fast,
                   flushed, interfered, shown, tool>>
    /\ UNCHANGED scan

\* lines 550-552: flush_input is not guarded by any exception handler
C_Ask ==
    /\ pc = "clean_ask" /\ exit = "running"
    /\ \E ev \in Events :
        /\ raw' = ev
        /\ IF ev = "<INT>"
           THEN exit' = "KeyboardInterrupt" /\ UNCHANGED <<pc, answer>>
           ELSE IF ev = "<EOF>"
           THEN exit' = "EOFError" /\ UNCHANGED <<pc, answer>>
           ELSE /\ answer' = upper(ev)
                /\ pc' = IF answer' \in {"Y", "N", ""} THEN "clean_rm" ELSE pc
                /\ UNCHANGED exit
    /\ flushed' = TRUE
    /\ UNCHANGED <<fs, config, handler, other_file, option, tested_files,
                   files_merge, files_delete, nprompts, snap, ops, outcome,
                   fast, interfered, shown, tool>>
    /\ UNCHANGED scan

RECURSIVE remove_all(_, _)
remove_all(f, S) ==
    IF S = {} THEN Ok(f)
    ELSE LET p == CHOOSE x \in S : TRUE
             r == _remove(f, p)
         IN  IF r.err = "none" THEN remove_all(r.fs, S \ {p}) ELSE r

\* lines 553-555
C_Delete ==
    /\ pc = "clean_rm" /\ exit = "running"
    /\ LET r == IF answer \in {"Y", ""} THEN remove_all(fs, files_delete)
                ELSE Ok(fs) IN
        /\ fs' = r.fs
        /\ exit' = IF r.err = "none" THEN exit ELSE r.err
        /\ pc' = IF r.err = "none" THEN "run_exit" ELSE pc
    /\ UNCHANGED <<config, locals, history>>
    /\ UNCHANGED scan

\* lines 123-124
R_Exit ==
    /\ pc = "run_exit" /\ exit = "running"
    /\ exit' = IF tested_files > 0 THEN "exit5" ELSE "returned"
    /\ UNCHANGED <<fs, config, pc, locals, history>>
    /\ UNCHANGED scan

RunArtifactValues == {Missing, File(DataA, 1), File(DataB, MaxMtime), Link("tgt")}
RunTargetValues == {Missing, File(DataA, 1)}
RunMergeConfigs == {<<"sdiff", FALSE>>}

\* RpmConf.__init__ followed by the call of run()
Init ==
    /\ \E b \in BaseValues, t \in RunTargetValues,
          n \in RunArtifactValues, s \in RunArtifactValues,
          o \in {Missing, File(DataB, MaxMtime)},
          x \in {Missing, File(DataB, 1)} :
        fs = [NoFiles EXCEPT !["base"] = b, !["tgt"] = t, !["new"] = n,
                             !["save"] = s, !["orig"] = o, !["stray"] = x]
    /\ unattended \in Policies
    /\ debug \in BOOLEAN
    /\ \E mc \in RunMergeConfigs : frontend = mc[1] /\ merge_env = mc[2]
    /\ test \in BOOLEAN /\ diff \in BOOLEAN /\ clean \in BOOLEAN
    /\ pc = "pkg"
    /\ handler = "none" /\ other_file = "none"
    /\ option = "" /\ answer = "none" /\ tested_files = 0
    /\ files_merge = {} /\ files_delete = {}
    /\ exit = "running"
    /\ raw = "none" /\ nprompts = 0 /\ snap = fs /\ ops = {}
    /\ outcome = "none" /\ fast = FALSE /\ flushed = FALSE
    /\ interfered = FALSE /\ shown = {} /\ tool = "none"
    /\ NoScan

Next ==
    \/ P_Diff
    \/ P_Enter
    \/ P_Check
    \/ P_Return
    \/ NextResolve
    \/ C_Scan
    \/ C_Ask
    \/ C_Delete
    \/ R_Exit

Spec == Init /\ [][Next]_vars

\* ------------------------------------- the resolver beside another actor
HandlerSteps == {"h_fast", "h_unatt", "h_rm", "h_ow", "h_ow_rm", "h_check1",
                 "h_ls", "h_read", "h_check2", "h_dispatch", "h_merge",
                 "h_merged", "h_final"}

\* another process unlinks other_file while the handler is running
ThirdParty ==
    /\ pc \in HandlerSteps /\ exit = "running"
    /\ lexists(fs, other_file)
    /\ fs' = [fs EXCEPT ![other_file] = Missing]
    /\ interfered' = TRUE
    /\ UNCHANGED <<config, pc, locals, exit, raw, nprompts, snap, ops,
                   outcome, fast, flushed, shown, tool>>
    /\ UNCHANGED scan

NextRace ==
    \/ NextResolve
    \/ ThirdParty

SpecRace == InitResolve /\ [][NextRace]_vars

\* ------------------------------------------- _clean_orphan: the tree walk
\* longest path the walk is followed along
MaxDepth == 6

\* the directories, by inode: /etc, /var, /usr, /var/lib, /var/lib/mock
Inodes == 1..5
Canon(i) ==
    CASE i = 1 -> <<"etc">> [] i = 2 -> <<"var">> [] i = 3 -> <<"usr">>
      [] i = 4 -> <<"var", "lib">> [] OTHER -> <<"var", "lib", "mock">>
RealDirs == {[dir |-> 2, name |-> "lib", to |-> 4],
             [dir |-> 4, name |-> "mock", to |-> 5]}

\* symbolic links a tree may hold: /etc/loop -> /etc, /var/etc -> /etc,
\* /usr/m -> /var/lib/mock, /etc/v -> /var
LinkCandidates == {[dir |-> 1, name |-> "loop", to |-> 1],
                   [dir |-> 2, name |-> "etc", to |-> 1],
                   [dir |-> 3, name |-> "m", to |-> 5],
                   [dir |-> 1, name |-> "v", to |-> 2]}

\* files a tree may hold, by the directory holding them
FileCandidates == {[dir |-> 1, stem |-> "foo.conf", ext |-> ".rpmsave"],
                   [dir |-> 1, stem |-> "foo.conf", ext |-> ".rpmorig"],
                   [dir |-> 1, stem |-> "gone.conf", ext |-> ".rpmnew"],
                   [dir |-> 4, stem |-> "c.conf", ext |-> ".rpmnew"],
                   [dir |-> 5, stem |-> "b.conf", ext |-> ".rpmsave"]}

\* values of self.exclude (line 109 has made them real paths)
ExcludeValues == {{}, {<<"etc">>}, {<<"var", "lib">>}, {<<"alt", "var", "lib">>}}

\* the package database of the install root: /etc/foo.conf belongs to pkgA
dbMatch(basename) ==
    IF basename = [dir |-> <<"etc">>, stem |-> "foo.conf"] THEN "pkgA"
    ELSE "none"

\* os.path.normpath(self.root + topdir), lines 516-517
FullPath(p) == IF wroot THEN <<"alt">> \o p ELSE p

\* the directory a path below the scan roots leads to (0: none), following
\* symbolic links as os.stat does
RECURSIVE lookup(_, _)
lookup(ino, rest) ==
    IF rest = << >> THEN ino
    ELSE LET e == {x \in RealDirs \cup links :
                     x.dir = ino /\ x.name = Head(rest)} IN
         IF e = {} THEN 0
         ELSE lookup((CHOOSE x \in e : TRUE).to, Tail(rest))

st_ino(p) ==
    LET q == IF wroot THEN Tail(p) ELSE p
        top == CASE Head(q) = "etc" -> 1 [] Head(q) = "var" -> 2
                 [] OTHER -> 3
    IN  lookup(top, Tail(q))

\* lines 510-511
Excludes ==
    exclude \cup {<<"var", "lib", "mock">>, <<"var", "run">>,
                  <<"var", "lib", "docker">>, <<"var", "lib", "containers">>}

\* the orders in which a directory listing may come
Orders(S) ==
    {o \in [1..Cardinality(S) -> S] :
        \A i, j \in 1..Cardinality(S) : i # j => o[i] # o[j]}

\* a variant of unseen that takes every directory for a new one
unseen_always(dirkey, seen) == TRUE
\* line 526
unseen(dirkey, seen) == dirkey \notin seen

\* lines 522-529: the subdirectories kept, and dirs_inodes afterwards
RECURSIVE scandirs(_, _, _)
scandirs(root, dirs, seen) ==
    IF dirs = << >> THEN [dirs |-> << >>, seen |-> seen]
    ELSE LET dirname == Head(dirs)
             dirkey == st_ino(root \o <<dirname>>)
         IN  IF unseen(dirkey, seen)
             THEN LET r == scandirs(root, Tail(dirs), seen \cup {dirkey}) IN
                  [dirs |-> <<dirname>> \o r.dirs, seen |-> r.seen]
             ELSE scandirs(root, Tail(dirs), seen)

\* the l_name values of lines 530-532 for the directory yielded as root
Named(root) ==
    {[dir |-> root, stem |-> f.stem, ext |-> f.ext] :
        f \in {x \in files : x.dir = st_ino(root)}}

\* RpmConf._clean_orphan_file for an l_name of the walk; delete holds
\* file_delete when it is not None
clean_orphan_file(l_name) ==
    LET orig == [dir |-> l_name.dir, stem |-> l_name.stem] IN
    IF dbMatch(orig) = "none"
    THEN [merge |-> <<"none", orig, l_name>>, delete |-> {l_name}]
    ELSE [merge |-> <<dbMatch(orig), orig, l_name>>, delete |-> {}]

\* line 512, a topdir that is excluded (lines 514-515)
W_Skip ==
    /\ pc = "scan_top" /\ todo # << >>
    /\ <<Head(todo)>> \in Excludes
    /\ todo' = Tail(todo)
    /\ UNCHANGED <<fs, config, pc, locals, exit, history, links, files,
                   exclude, wroot, stack, dirs_inodes, visits>>

\* lines 512-518: os.walk starts at the next topdir
W_Top ==
    /\ pc = "scan_top" /\ todo # << >>
    /\ <<Head(todo)>> \notin Excludes
    /\ todo' = Tail(todo)
    /\ stack' = <<FullPath(<<Head(todo)>>)>>
    /\ pc' = "scan_walk"
    /\ UNCHANGED <<fs, config, locals, exit, history, links, files,
                   exclude, wroot, dirs_inodes, visits>>

\* lines 518-538: one directory yielded by os.walk
W_Visit ==
    /\ pc = "scan_walk" /\ stack # << >>
    /\ Len(Head(stack)) <= MaxDepth
    /\ LET root == Head(stack)
           entries == {e.name : e \in {x \in RealDirs \cup links :
                                         x.dir = st_ino(root)}}
           kept == {d \in entries : (root \o <<d>>) \notin Excludes}
           found == {clean_orphan_file(l) :
                       l \in {n \in Named(root) : n.ext \in ScanSuffixes}}
       IN  /\ \E dirs \in Orders(kept) :
                LET r == scandirs(root, dirs, dirs_inodes) IN
                /\ dirs_inodes' = r.seen
                /\ stack' = [i \in 1..Len(r.dirs) |-> root \o <<r.dirs[i]>>]
                                \o Tail(stack)
           /\ files_merge' = files_merge \cup
                {r.merge : r \in {x \in found : x.merge[1] # "none"}}
           /\ \E order \in Orders(UNION {r.delete : r \in found}) :
                files_delete' = files_delete \o order
           /\ visits' = visits \cup {root}
    /\ UNCHANGED <<fs, config, pc, handler, other_file, option, answer,
                   tested_files, exit, history, links, files, exclude,
                   wroot, todo>>

\* line 518: os.walk is exhausted
W_Up ==
    /\ pc = "scan_walk" /\ stack = << >>
    /\ pc' = "scan_top"
    /\ UNCHANGED <<fs, config, locals, exit, history, scan>>

\* line 539: the loop over the topdirs is over
W_Done ==
    /\ pc = "scan_top" /\ todo = << >>
    /\ pc' = "scan_done"
    /\ UNCHANGED <<fs, config, locals, exit, history, scan>>

\* RpmConf.__init__ followed by the call of _clean_orphan (lines 507-512)
InitScan ==
    /\ fs = NoFiles
    /\ unattended = "none" /\ debug = FALSE
    /\ frontend = "none" /\ merge_env = FALSE
    /\ test = FALSE /\ diff = FALSE /\ clean = TRUE
    /\ pc = "scan_top"
    /\ handler = "none" /\ other_file = "none"
    /\ option = "" /\ answer = "none" /\ tested_files = 0
    /\ files_merge = {} /\ files_delete = << >>
    /\ exit = "running"
    /\ raw = "none" /\ nprompts = 0 /\ snap = fs /\ ops = {}
    /\ outcome = "none" /\ fast = FALSE /\ flushed = FALSE
    /\ interfered = FALSE /\ shown = {} /\ tool = "none"
    /\ links \in SUBSET LinkCandidates
    /\ files \in SUBSET FileCandidates
    /\ exclude \in ExcludeValues
    /\ wroot \in BOOLEAN
    /\ todo = <<"etc", "var", "usr">>
    /\ stack = << >> /\ dirs_inodes = {} /\ visits = {}

NextScan ==
    \/ W_Skip
    \/ W_Top
    \/ W_Visit
    \/ W_Up
    \/ W_Done

SpecScan == InitScan /\ [][NextScan]_vars

\* the file a name of the walk leads to
entry(l_name) ==
    [dir |-> st_ino(l_name.dir), stem |-> l_name.stem, ext |-> l_name.ext]

\* RpmConf._remove for a name of the walk, on the files F
remove_at(F, l_name) ==
    IF debug THEN [files |-> F, err |-> "none"]
    ELSE IF entry(l_name) \in F
    THEN [files |-> F \ {entry(l_name)}, err |-> "none"]
    ELSE [files |-> F, err |-> "FileNotFoundError"]

\* lines 554-555: the loop over files_delete, ended by the first exception
RECURSIVE remove_each(_, _)
remove_each(F, names) ==
    IF names = << >> THEN [files |-> F, err |-> "none"]
    ELSE LET r == remove_at(F, Head(names)) IN
         IF r.err = "none" THEN remove_each(r.files, Tail(names)) ELSE r

\* lines 546 and 556-557: nothing to delete
W_None ==
    /\ pc = "scan_done" /\ exit = "running"
    /\ files_delete = << >>
    /\ pc' = "scan_ret"
    /\ UNCHANGED <<fs, config, locals, exit, history, scan>>

\* lines 546-552
W_Ask ==
    /\ pc = "scan_done" /\ exit = "running"
    /\ files_delete # << >>
    /\ \E ev \in Events :
        /\ raw' = ev
        /\ IF ev = "<INT>"
           THEN exit' = "KeyboardInterrupt" /\ UNCHANGED <<pc, answer>>
           ELSE IF ev = "<EOF>"
           THEN exit' = "EOFError" /\ UNCHANGED <<pc, answer>>
           ELSE /\ answer' = upper(ev)
                /\ pc' = IF answer' \in {"Y", "N", ""} THEN "scan_rm" ELSE pc
                /\ UNCHANGED exit
    /\ flushed' = TRUE
    /\ UNCHANGED <<fs, config, handler, other_file, option, tested_files,
                   files_merge, files_delete, nprompts, snap, ops, outcome,
                   fast, interfered, shown, tool, scan>>

\* lines 553-555
W_Delete ==
    /\ pc = "scan_rm" /\ exit = "running"
    /\ LET r == IF answer \in {"Y", ""} THEN remove_each(files, files_delete)
                ELSE [files |-> files, err |-> "none"] IN
        /\ files' = r.files
        /\ exit' = IF r.err = "none" THEN exit ELSE r.err
        /\ pc' = IF r.err = "none" THEN "scan_ret" ELSE pc
    /\ UNCHANGED <<fs, config, locals, history, links, exclude, wroot, todo,
                   stack, dirs_inodes, visits>>

NextClean ==
    \/ NextScan
    \/ W_None
    \/ W_Ask
    \/ W_Delete

\* _clean_orphan as a whole: the walk, the question and the deletion
SpecClean == InitScan /\ [][NextClean]_vars

\* the trees of InitScan without their files, which the walk does not
\* depend on
InitWalk == InitScan /\ files = {}

\* the walk is one sequential loop: a step that can be taken is taken
SpecScanFair == InitWalk /\ [][NextScan]_vars /\ WF_vars(NextScan)

\* =================================================================== claims
\* both sides exist (a dangling link does not) and hold the same bytes
Identical(f, other) ==
    /\ exists(f, conf_file) /\ exists(f, other)
    /\ content(f, conf_file) = content(f, other)

\* conf_file and what it points to are as they were in g
BaseUntouched(f, g) == f["base"] = g["base"] /\ f["tgt"] = g["tgt"]

\* C1: whenever base and artifact both exist, neither is a broken symbolic
\* link (valid symbolic links included) and their contents are identical,
\* the resolver issues no prompt and returns having removed the artifact
\* (printed only in a dry run) and left base as it was, for both handlers
\* and every unattended policy.
C1_FastPath ==
    (handler # "none" /\ Identical(snap, other_file)) =>
        /\ nprompts = 0
        /\ pc = "ret" =>
            /\ BaseUntouched(fs, snap)
            /\ ~debug => ~lexists(fs, other_file)

\* C2: with no unattended policy, a pair whose contents differ (same type,
\* size and modification time included) is not resolved by the fast path:
\* until the first prompt no file is touched and no removal is scheduled.
C2_DifferingPairsPrompt ==
    (handler # "none" /\ unattended = "none" /\ nprompts = 0
     /\ exit = "running" /\ ~Identical(snap, other_file)) =>
        /\ fs = snap
        /\ ~fast
        /\ pc \in {"h_fast", "h_unatt", "h_check1", "h_ls"}

\* the table of section 4.1
C3_Table(h, policy) ==
    IF h = "rpmnew"
    THEN (IF policy = "use_maintainer" THEN "overwrite" ELSE "remove")
    ELSE (IF policy = "use_your" THEN "overwrite" ELSE "remove")

\* base carries what other_file carried in g, and other_file is gone
Overwritten(f, g, other) ==
    /\ ~lexists(f, other)
    /\ IF islink(g, other) THEN f["base"] = g[other]
       ELSE exists(f, conf_file) /\ content(f, conf_file) = content(g, other)

\* other_file is gone and base is as it was in g
Deleted(f, g, other) == ~lexists(f, other) /\ BaseUntouched(f, g)

\* C3: with an unattended policy set, a call that does not take the fast
\* path never prompts or reads, never fails, and returns having invoked
\* exactly the one operation the table names for (kind, policy), with that
\* operation's effect on the files (no effect in a dry run).
C3_UnattendedMapping ==
    (handler # "none" /\ unattended # "none") =>
        /\ nprompts = 0 /\ ~flushed /\ exit = "running"
        /\ (pc = "ret" /\ ~fast) =>
            /\ ops = {C3_Table(handler, unattended)}
            /\ IF debug THEN fs = snap
               ELSE IF C3_Table(handler, unattended) = "overwrite"
               THEN Overwritten(fs, snap, other_file)
               ELSE Deleted(fs, snap, other_file)

C3_Witness ==
    /\ pc = "ret" /\ ~fast /\ ~debug
    /\ handler = "rpmsave" /\ unattended = "use_your"
    /\ ops = {"overwrite"} /\ ~lexists(fs, other_file)

\* the files an unattended call with `policy` leaves when started on f
C4_End(h, policy, f, other) ==
    IF debug THEN f
    ELSE IF C3_Table(h, policy) = "overwrite"
    THEN unlink(_copy(f, other, conf_file).fs, other).fs
    ELSE unlink(f, other).fs

\* C4: an interactive call that ends on Y/I leaves the files as policy
\* use_maintainer does, on N/O as policy use_your does, and on empty input
\* as policy default does (base unchanged, artifact deleted), for both
\* kinds; e.g. NEW with base A and artifact B ends on Y with base B.
C4_InteractiveAsUnattended ==
    (pc = "ret" /\ unattended = "none" /\ ~fast /\ outcome = "none"
     /\ raw \in Lines) =>
        /\ upper(raw) \in {"Y", "I"} =>
            fs = C4_End(handler, "use_maintainer", snap, other_file)
        /\ upper(raw) \in {"N", "O"} =>
            fs = C4_End(handler, "use_your", snap, other_file)
        /\ raw = "" =>
            /\ fs = C4_End(handler, "default", snap, other_file)
            /\ ~debug => Deleted(fs, snap, other_file)
        /\ (handler = "rpmnew" /\ ~debug /\ upper(raw) \in {"Y", "I"}
            /\ snap["base"] = File(DataA, 1) /\ content(snap, "new") = DataB)
            => content(fs, "base") = DataB /\ ~lexists(fs, "new")

C4_Witness ==
    /\ pc = "ret" /\ unattended = "none" /\ ~debug /\ outcome = "none"
    /\ handler = "rpmsave" /\ raw = "o"
    /\ snap["base"] = File(DataA, 1) /\ content(snap, other_file) = DataB
    /\ content(fs, "base") = DataB /\ ~lexists(fs, other_file)

Recognized == {"Y", "I", "N", "O", "D", "M", "Z", "S"}

\* C5 as stated: an input that is none of the recognized aliases ends the
\* loop with the kind's default answer.
C5_UnrecognizedIsDefault ==
    [][(pc = "h_dispatch" /\ option \notin Recognized) =>
        (pc' = "h_final" /\ option' = default_option(handler))]_vars

\* C5: empty input ends the loop with the kind's default answer; any other
\* input that is none of the recognized aliases touches no file, invokes no
\* operation and goes back to the head of the loop, where the prompt is
\* shown again.
C5_UnrecognizedAsksAgain ==
    [][(pc = "h_dispatch") =>
        /\ option = "" =>
            (pc' = "h_final" /\ option' = default_option(handler))
        /\ option \notin Recognized \cup {""} =>
            (pc' = "h_check1" /\ option' = option /\ fs' = fs /\ ops' = ops)]_vars

C5_Witness ==
    /\ pc = "h_read" /\ nprompts = 2 /\ option = "X" /\ raw = "x"
    /\ fs = snap /\ ops = {}

SkipInputs == {"S", "s", "<EOF>"}

\* C6: once the prompt has read S, s or end-of-input the loop ends and the
\* handler returns; no file is created, modified or removed on the way.
C6_SkipUntouched ==
    (handler # "none" /\ raw \in SkipInputs) =>
        /\ option = "S"
        /\ pc \in {"h_check2", "h_dispatch", "h_final", "ret"}
        /\ fs = snap
        /\ exit = "running"

C6_Witness ==
    /\ pc = "ret" /\ raw = "s" /\ handler = "rpmsave"
    /\ exists(fs, other_file) /\ outcome = "none"

\* C7: an interrupt during any line read of the run (the per-file prompt
\* and the orphan confirmation) ends the run with exit status 1 and no file
\* operation for the pending decision.
C7_InterruptExits1 ==
    (raw = "<INT>") => (exit = "exit1" /\ fs = snap)

\* C8: with an unattended policy set, flush_input is never called during
\* run(), orphan clean-up included.
C8_UnattendedNeverReads ==
    (unattended # "none") => ~flushed

\* C9: the prompt is printed only right after an existence check that found
\* other_file, every line read is followed by an existence check, and a
\* check that finds other_file absent returns with the "removed by 3rd
\* party" report, touching no file and invoking no operation.
C9_VanishedSkips ==
    [][/\ (pc' = "h_ls" /\ pc # "h_ls") =>
            (pc = "h_check1" /\ exists(fs, other_file))
       /\ (pc = "h_read" /\ pc' # pc) => pc' = "h_check2"
       /\ (pc \in {"h_check1", "h_check2"} /\ pc' # pc
           /\ ~exists(fs, other_file)) =>
            /\ pc' = "ret" /\ outcome' = "removed_by_3rd_party"
            /\ fs' = fs /\ ops' = ops /\ exit' = "running"]_vars

C9_Witness ==
    /\ pc = "ret" /\ outcome = "removed_by_3rd_party" /\ interfered
    /\ raw = "Y" /\ ops = {} /\ ~lexists(fs, other_file)

\* C10: when another actor removes other_file at any step of the handler,
\* the handler still returns; no exception ends the run.
C10_DisappearanceNotFatal ==
    interfered =>
        exit \notin {"FileNotFoundError", "CalledProcessError", "SameFileError"}

\* the merge tool was found, ran, and ended with a non-success status
NonSuccess ==
    \/ tool = "exit2"
    \/ tool = "exit1" /\ frontend # "sdiff"

\* C11: for every frontend, when the merge tool is found but exits with a
\* non-success status (for sdiff: a status other than 0 or 1),
\* _merge_conf_files returns and the run is not terminated.
C11_MergeFailureRecovered ==
    (pc = "h_merge" /\ NonSuccess) => exit = "running"

\* C12: _merge_conf_files ends the run with status 4 only when the resolved
\* executable cannot be found; a tool that exists and runs never leads to
\* status 4, whatever its exit status and whatever files exist afterwards.
C12_Exit4OnlyWhenMissing ==
    (exit = "exit4") => (tool = "missing")

\* C13: with test set, no step of run() creates, modifies or removes a
\* filesystem entry, whatever the other options, answers and file states.
C13_TestMutatesNothing ==
    [][test => fs' = fs]_vars

\* the file states the external merge tool itself can leave behind (the
\* scratch file handed to sdiff included)
ToolLeft(f) ==
    LET f0 == IF frontend = "sdiff"
              THEN [f EXCEPT !["tmp"] = File(<< >>, MaxMtime)] ELSE f
    IN  {f0} \cup {ToolRun(f0, frontend, other_file, eff) :
                     eff \in ToolEffects(frontend, merge_env)}

\* C14: with debug set, the program itself changes no file: every step of
\* the resolver, of the merge dispatcher and of the orphan deletion leaves
\* the files as they were, or (when the merge tool runs) as the tool left
\* them.
C14_DebugMutatesNothing ==
    [][debug => (fs' = fs \/ (pc = "h_merge" /\ fs' \in ToolLeft(fs)))]_vars

\* C15: in diff mode, once the configuration file has been handled, every
\* existing artifact base+suffix has been presented in a diff against base,
\* or against the null file when base is missing.
C15_DiffCoversArtifacts ==
    (diff /\ pc # "pkg") =>
        \A a \in {"new", "save", "orig"} :
            lexists(fs, a) =>
                \E d \in shown :
                    \/ d[1] = a /\ d[2] \in {conf_file, "/dev/null"}
                    \/ d[2] = a /\ d[1] \in {conf_file, "/dev/null"}

\* C16: the orphan scan terminates on every tree, symbolic-link cycles and
\* links between the scan roots included.
C16_ScanTerminates ==
    <>(pc = "scan_done")

C16_Witness ==
    /\ pc = "scan_done"
    /\ [dir |-> 1, name |-> "loop", to |-> 1] \in links
    /\ [dir |-> 2, name |-> "etc", to |-> 1] \in links
    /\ FullPath(<<"etc", "loop">>) \in visits
    /\ FullPath(<<"etc", "loop", "loop">>) \notin visits

\* the files the scan has recorded, in needs_merge or as orphans
Orphans == {files_delete[i] : i \in 1..Len(files_delete)}
Recorded == {m[3] : m \in files_merge} \cup Orphans

\* C17: every directory (device, inode), the roots included, is examined at
\* most once during a scan, and no file is recorded under two paths.
C17_EachDirectoryOnce ==
    /\ \A v1, v2 \in visits : st_ino(v1) = st_ino(v2) => v1 = v2
    /\ \A n1, n2 \in Recorded :
        (st_ino(n1.dir) = st_ino(n2.dir) /\ n1.stem = n2.stem
         /\ n1.ext = n2.ext) => n1 = n2

IsPrefix(a, b) == Len(a) <= Len(b) /\ SubSeq(b, 1, Len(a)) = a

\* directory i lies in an excluded directory: one the user named, or a
\* built-in one of the install root
InExcluded(i) ==
    \E e \in exclude \cup {FullPath(b) : b \in Excludes \ exclude} :
        IsPrefix(e, FullPath(Canon(i)))

\* C18: no file located in an excluded directory is recorded, by whatever
\* path the walk reaches the directory, with or without an install root.
C18_ExcludedContributeNothing ==
    \A n \in Recorded : ~InExcluded(st_ino(n.dir))

\* C19: a candidate found under its own path is recorded in exactly one of
\* needs_merge and orphans: in needs_merge with package P exactly when the
\* database says P owns its base name, in orphans exactly when nobody does.
C19_OwnershipClassification ==
    \A n \in Recorded :
        (n.dir = FullPath(Canon(st_ino(n.dir)))) =>
            LET owner == dbMatch([dir |-> Canon(st_ino(n.dir)),
                                  stem |-> n.stem])
                merged == {m \in files_merge : m[3] = n}
            IN  IF owner = "none"
                THEN n \in Orphans /\ merged = {}
                ELSE n \notin Orphans /\ merged # {}
                     /\ \A m \in merged : m[1] = owner

\* C20: every file of an examined directory whose name ends in .rpmnew,
\* .rpmsave or .rpmorig is recorded in needs_merge or in orphans.
C20_AllSuffixesAlike ==
    \A v \in visits : \A n \in Named(v) :
        n.ext \in {".rpmnew", ".rpmsave", ".rpmorig"} => n \in Recorded

\* C20 as the code has it: every file of an examined directory whose name
\* ends in .rpmnew or .rpmsave is recorded in needs_merge or in orphans,
\* and a file whose name ends in .rpmorig is never recorded.
C20_NewAndSaveOnly ==
    \A v \in visits : \A n \in Named(v) :
        /\ n.ext \in {".rpmnew", ".rpmsave"} => n \in Recorded
        /\ n.ext = ".rpmorig" => n \notin Recorded

C20_Witness ==
    /\ pc = "scan_done"
    /\ \E v \in visits : \E n1, n2 \in Named(v) :
        /\ n1.ext = ".rpmorig" /\ n1 \notin Recorded
        /\ n2.ext = ".rpmsave" /\ n2 \in Recorded

\* C21: the scanner removes a file only when the answer was Y or empty and
\* the file was classified orphan in this scan; a file it classified
\* needs_merge is never removed; only Y, N or empty input ends the question.
C21_DeletionGated ==
    [][/\ (files' # files) =>
            /\ answer \in {"Y", ""}
            /\ \A f \in files \ files' :
                /\ \E n \in Orphans : entry(n) = f
                /\ \A m \in files_merge : entry(m[3]) # f
       /\ (pc = "scan_done" /\ pc' = "scan_rm") =>
            answer' \in {"Y", "N", ""}]_vars

\* no sibling artifact of conf_file is on disk
NoArtifacts(f) == \A a \in {"new", "save", "orig"} : ~lexists(f, a)

\* C22: with an unattended policy (test, diff and debug off), when run()
\* completes no artifact of the configuration file is left on disk,
\* whatever base and artifacts were at the start; and where no artifact is
\* left the package pass prints no prompt and changes no file.
C22_Convergence ==
    [][(unattended # "none" /\ ~test /\ ~diff /\ ~debug) =>
          /\ (exit' = "returned") => NoArtifacts(fs')
          /\ (NoArtifacts(fs) /\ pc \notin {"run_clean", "clean_ask", "clean_rm"})
                => (fs' = fs /\ nprompts' = nprompts)]_vars

\* C23: an overwrite or delete of the resolver changes only the entries
\* conf_file and other_file, every other file (the target of a symbolic link
\* among them) stays as it was; and an other_file that is a symbolic link
\* is recreated at conf_file as a link with the same target.
C23_TouchesOnlyPair ==
    [][(pc \in {"h_rm", "h_ow", "h_ow_rm"}) =>
          /\ \A p \in Paths \ {conf_file, other_file} : fs'[p] = fs[p]
          /\ (pc = "h_ow" /\ pc' = "h_ow_rm" /\ islink(fs, other_file)) =>
                fs'[conf_file] = Link(fs[other_file].to)]_vars

====
